---------------------------- MODULE Spec2Model ----------------------------
(***************************************************************************)
(* OpenWorldAgent: the analysis-and-synthesis pipeline.                    *)
(*                                                                         *)
(*   Orchestrator.generateAutomation  (src/core/orchestrator.js)           *)
(*   VisionAnalyzer.analyze           (src/core/vision-analyzer.js)        *)
(*   AuthManager.analyzeAndHandle     (src/core/auth-manager.js)           *)
(*   InterfaceMapper / ToolGenerator  (src/unnamed/part_001)               *)
(*   ConfigUpdater                    (src/core/orchestrator.js, l.257 ff) *)
(*                                                                         *)
(* JavaScript strings whose characters the code inspects (element text,    *)
(* class names, host names, tool names) are sequences of one-character     *)
(* strings; strings the code only passes around (log labels, error         *)
(* messages, implementation tags) are TLA+ strings.  Confidences are in    *)
(* hundredths (0.85 is 85).                                                *)
(***************************************************************************)
EXTENDS Naturals, Integers, Sequences, FiniteSets, TLC

VARIABLES
    browser,    \* Orchestrator.browser: "null" or the session it refers to
    page,       \* Orchestrator.page: "null" or the session whose page it is
    session,    \* session[s]: "none" | "open" | "closed" (the browser processes)
    pc,         \* pc[r]: the await at which run r of generateAutomation is suspended
    opts,       \* opts[r]: the options argument of run r
    target,     \* target[r]: the session the call run r awaits was made on
    pipeline,   \* pipeline[r]: the pipeline object of run r (orchestrator.js:31-37)
    result,     \* result[r]: the value run r returns
    hist,       \* hist[r]: the stage operations run r invoked, and the one that threw
    profile,    \* AuthManager.profile ("null" or "loaded"), and how often it was loaded
    unit        \* a direct call of one component: its input and its outcome

vars == <<browser, page, session, pc, opts, target, pipeline, result, hist, profile,
          unit>>

-----------------------------------------------------------------------------
(* Bounds of the model *)

\* longest page (DOM nodes matched by the interactive selectors) a direct call draws
MaxNodes == 2

\* latest reading of the clock (new Date()) a direct call draws
MaxClock == 1

\* longest element list a direct call of a category's tool generator draws
MaxElements == 11

-----------------------------------------------------------------------------
(* JavaScript strings as character sequences *)

UpperCase == <<"A","B","C","D","E","F","G","H","I","J","K","L","M",
               "N","O","P","Q","R","S","T","U","V","W","X","Y","Z">>
LowerCase == <<"a","b","c","d","e","f","g","h","i","j","k","l","m",
               "n","o","p","q","r","s","t","u","v","w","x","y","z">>
Digit == {"0","1","2","3","4","5","6","7","8","9"}

Range(s) == {s[i] : i \in 1..Len(s)}

\* [a-zA-Z0-9]
AlphaNum == Range(UpperCase) \cup Range(LowerCase) \cup Digit

\* String.prototype.toLowerCase
toLowerCase(s) ==
    [i \in 1..Len(s) |->
        IF s[i] \in Range(UpperCase)
        THEN LowerCase[CHOOSE k \in 1..Len(UpperCase) : UpperCase[k] = s[i]]
        ELSE s[i]]

\* String.prototype.includes
includes(s, kw) == \E i \in 0..(Len(s) - Len(kw)) : SubSeq(s, i + 1, i + Len(kw)) = kw

\* String.prototype.substring(0, n)
substring0(s, n) == SubSeq(s, 1, IF Len(s) < n THEN Len(s) ELSE n)

\* the value null where a string may stand (getAttribute of an absent attribute)
JsNull == <<"null-value">>

\* what string concatenation makes of its operand
ToStr(v) == IF v = JsNull THEN <<"n","u","l","l">> ELSE v

\* truthiness of a string-or-null
Truthy(v) == v # JsNull /\ v # <<>>

Min(a, b) == IF a < b THEN a ELSE b
Max(a, b) == IF a > b THEN a ELSE b

RECURSIVE Flatten(_)
Flatten(ss) == IF ss = <<>> THEN <<>> ELSE Head(ss) \o Flatten(Tail(ss))

-----------------------------------------------------------------------------
(* Outcomes of a call, and optional values *)

\* null / undefined where an object may stand
NoResult == [null |-> TRUE]

\* a pipeline field not assigned yet
Unset == [unset |-> TRUE]

Throw(msg) == [threw |-> TRUE, error |-> msg, value |-> NoResult]
Return(v)  == [threw |-> FALSE, error |-> "", value |-> v]

\* x || 0 on a number that may be undefined (<<>>)
OrZero(n) == IF n = <<>> THEN 0 ELSE n[1]

TypeErrorNull == "Cannot read properties of null"
InvalidURL == "Invalid URL"

-----------------------------------------------------------------------------
(* InterfaceMapper (src/unnamed/part_001, lines 6-185) *)

W_login    == <<"l","o","g","i","n">>
W_signin   == <<"s","i","g","n","i","n">>
W_signup   == <<"s","i","g","n","u","p">>
W_password == <<"p","a","s","s","w","o","r","d">>
W_email    == <<"e","m","a","i","l">>
W_register == <<"r","e","g","i","s","t","e","r">>
W_auth     == <<"a","u","t","h">>
W_home     == <<"h","o","m","e">>
W_about    == <<"a","b","o","u","t">>
W_contact  == <<"c","o","n","t","a","c","t">>
W_menu     == <<"m","e","n","u">>
W_nav      == <<"n","a","v">>
W_link     == <<"l","i","n","k">>
W_create   == <<"c","r","e","a","t","e">>
W_generate == <<"g","e","n","e","r","a","t","e">>
W_submit   == <<"s","u","b","m","i","t">>
W_send     == <<"s","e","n","d">>
W_save     == <<"s","a","v","e">>
W_delete   == <<"d","e","l","e","t","e">>
W_edit     == <<"e","d","i","t">>
W_update   == <<"u","p","d","a","t","e">>

authKeywords   == {W_login, W_signin, W_signup, W_password, W_email, W_register, W_auth}
navKeywords    == {W_home, W_about, W_contact, W_menu, W_nav, W_link}
actionKeywords == {W_create, W_generate, W_submit, W_send, W_save, W_delete, W_edit, W_update}

\* the five buckets, in the order categorizeElements creates them
CategoryNames == <<"authentication", "navigation", "forms", "actions", "content">>

\* text.substring(0, 100) of the extraction callback
TextCap == 100

\* the callback of page.evaluate in mapElements, on the nodes the selector list
\* matches (in document order): zero-area nodes are skipped, the text is cut
extractElements(dom) ==
    LET shown == SelectSeq(dom, LAMBDA n : n.width > 0 /\ n.height > 0)
        elData(n) == [tag |-> n.tag, type |-> n.type,
                      text |-> substring0(n.text, TextCap),
                      placeholder |-> n.placeholder, href |-> n.href,
                      attrId |-> n.id, className |-> n.className, name |-> n.name,
                      ariaLabel |-> n.ariaLabel,
                      isClickable |-> (n.tag \in {"button", "a"} \/ n.onclick
                                       \/ n.role = "button")]
        elements == [i \in 1..Len(shown) |-> elData(shown[i])]
    IN  [elements |-> elements, totalElements |-> Len(elements)]

isAuthElement(element) ==
    LET text == toLowerCase(element.text \o element.placeholder \o element.attrId
                            \o element.className)
    IN  (\E keyword \in authKeywords : includes(text, keyword))
        \/ element.type = "password"

isNavigationElement(element) ==
    LET text == toLowerCase(element.text \o element.href \o element.className)
    IN  element.tag = "a" \/ \E keyword \in navKeywords : includes(text, keyword)

isFormElement(element) ==
    element.tag \in {"input", "textarea", "select"} /\ ~isAuthElement(element)

isActionElement(element) ==
    LET text == toLowerCase(element.text \o ToStr(element.ariaLabel))
    IN  element.tag = "button" \/ \E keyword \in actionKeywords : includes(text, keyword)

\* the chain with the navigation test before the authentication test
categoryOfNavigationFirst(element) ==
    IF isNavigationElement(element) THEN "navigation"
    ELSE IF isAuthElement(element) THEN "authentication"
    ELSE IF isFormElement(element) THEN "forms"
    ELSE IF isActionElement(element) THEN "actions"
    ELSE "content"

\* the bucket the if / else-if chain of categorizeElements pushes the element to
categoryOf(element) ==
    IF isAuthElement(element) THEN "authentication"
    ELSE IF isNavigationElement(element) THEN "navigation"
    ELSE IF isFormElement(element) THEN "forms"
    ELSE IF isActionElement(element) THEN "actions"
    ELSE "content"

ScorePerElement == 10
ScoreCap == 100

assessAutomationPotential(categories) ==
    LET flat == Flatten([i \in 1..Len(CategoryNames) |-> categories[CategoryNames[i]]])
    IN  [score |-> Min(ScoreCap, Len(flat) * ScorePerElement),
         hasAuth |-> Len(categories["authentication"]) > 0,
         hasActions |-> Len(categories["actions"]) > 0,
         hasForms |-> Len(categories["forms"]) > 0,
         hasNavigation |-> Len(categories["navigation"]) > 0,
         totalInteractiveElements |-> Len(flat)]

\* categorizeElements with every test applied on its own, not as an else-if chain
categorizeElementsEachTest(elementMap) ==
    LET test(c, e) ==
            CASE c = "authentication" -> isAuthElement(e)
              [] c = "navigation"     -> isNavigationElement(e)
              [] c = "forms"          -> isFormElement(e)
              [] c = "actions"        -> isActionElement(e)
              [] OTHER                -> FALSE
        categories ==
            [c \in Range(CategoryNames) |->
                SelectSeq(elementMap.elements, LAMBDA e : test(c, e))]
    IN  [elements |-> elementMap.elements,
         totalElements |-> elementMap.totalElements,
         categories |-> categories,
         automationPotential |-> assessAutomationPotential(categories)]

categorizeElements(elementMap) ==
    LET categories ==
            [c \in Range(CategoryNames) |->
                SelectSeq(elementMap.elements, LAMBDA e : categoryOf(e) = c)]
    IN  [elements |-> elementMap.elements,
         totalElements |-> elementMap.totalElements,
         categories |-> categories,
         automationPotential |-> assessAutomationPotential(categories)]

\* what the catch of mapElements returns: categories is the empty object
degradedMap == [elements |-> <<>>, categories |-> [c \in {} |-> <<>>]]

\* mapElements with the failure of the extraction thrown on instead of caught
mapElementsRethrows(ev) ==
    IF ev.ok THEN Return(categorizeElements(extractElements(ev.dom)))
    ELSE Throw("Interface mapping failed")

\* mapElements(page) once page.evaluate has settled: ev.ok says whether it
\* resolved (a null page, a closed page or a failing callback rejects), ev.dom
\* is the page it ran on
mapElements(ev) ==
    IF ev.ok THEN Return(categorizeElements(extractElements(ev.dom)))
    ELSE Return(degradedMap)                          \* the catch, lines 90-93

-----------------------------------------------------------------------------
(* ToolGenerator (src/unnamed/part_001, lines 191-486) *)

\* a URL string is [ok, hostname]: ok says whether new URL(url) parses it
W_site == <<"s","i","t","e">>

\* .replace(/\./g, '_').replace(/[^a-zA-Z0-9_]/g, ''), or 'site' when new URL throws
extractSiteName(url) ==
    IF url.ok
    THEN LET dots == [i \in 1..Len(url.hostname) |->
                         IF url.hostname[i] = "." THEN "_" ELSE url.hostname[i]]
         IN  SelectSeq(dots, LAMBDA c : c \in AlphaNum \cup {"_"})
    ELSE W_site

NameCap == 20

\* the sanitization without the cut
sanitizeNameUncut(name) ==
    [i \in 1..Len(name) |-> IF name[i] \in AlphaNum THEN name[i] ELSE "_"]

\* name.replace(/[^a-zA-Z0-9]/g, '_').substring(0, 20)
sanitizeName(name) ==
    substring0([i \in 1..Len(name) |-> IF name[i] \in AlphaNum THEN name[i] ELSE "_"],
               NameCap)

Tool(name, implementation, required) ==
    [name |-> name, implementation |-> implementation, required |-> required]

\* the base tools without the status tool
generateBaseToolsNoStatus(siteName) ==
    << Tool(siteName \o <<"_","i","n","i","t","i","a","l","i","z","e">>,
            "navigate_and_initialize", <<>>),
       Tool(siteName \o <<"_","s","c","r","e","e","n","s","h","o","t">>,
            "take_screenshot", <<>>) >>

generateBaseTools(siteName) ==
    << Tool(siteName \o <<"_","i","n","i","t","i","a","l","i","z","e">>,
            "navigate_and_initialize", <<>>),
       Tool(siteName \o <<"_","s","c","r","e","e","n","s","h","o","t">>,
            "take_screenshot", <<>>),
       Tool(siteName \o <<"_","g","e","t","_","s","t","a","t","u","s">>,
            "get_page_status", <<>>) >>

generateAuthTools(elements, siteName) ==
    LET textHas(kw) == \E i \in 1..Len(elements) :
                           includes(toLowerCase(elements[i].text), kw)
    IN  (IF textHas(W_login) \/ textHas(W_signin)
         THEN << Tool(siteName \o <<"_","l","o","g","i","n">>, "handle_login",
                      <<"email", "password">>) >>
         ELSE <<>>)
        \o
        (IF textHas(W_signup) \/ textHas(W_register)
         THEN << Tool(siteName \o <<"_","s","i","g","n","u","p">>, "handle_signup",
                      <<"email", "password">>) >>
         ELSE <<>>)

MaxActionTools == 10

\* the action tools without the limit
generateActionToolsUncapped(elements, siteName) ==
    LET picked == SelectSeq(elements, LAMBDA e : e.isClickable /\ Truthy(e.text))
    IN  [i \in 1..Len(picked) |->
            Tool(siteName \o <<"_">> \o sanitizeName(toLowerCase(picked[i].text)),
                 "click_element", <<>>)]

generateActionTools(elements, siteName) ==
    LET picked == SelectSeq(elements, LAMBDA e : e.isClickable /\ Truthy(e.text))
        tools == [i \in 1..Len(picked) |->
                     Tool(siteName \o <<"_">> \o sanitizeName(toLowerCase(picked[i].text)),
                          "click_element", <<>>)]
    IN  SubSeq(tools, 1, Min(MaxActionTools, Len(tools)))

\* "Simple grouping": the one group holds every form element, also when there is none
groupFormElements(elements) == << elements >>

DigitChar(n) == CHOOSE d \in Digit : d = ToString(n)

generateFormTools(elements, siteName) ==
    LET formGroups == groupFormElements(elements)
    IN  [index \in 1..Len(formGroups) |->
            Tool(siteName \o <<"_","f","i","l","l","_","f","o","r","m","_">>
                          \o <<DigitChar(index)>>,
                 "fill_form", <<>>)]

MaxNavTools == 5

generateNavigationTools(elements, siteName) ==
    LET picked == SelectSeq(elements, LAMBDA e : Truthy(e.href) /\ Truthy(e.text))
        tools == [i \in 1..Len(picked) |->
                     Tool(siteName \o <<"_","g","o","t","o","_">> \o sanitizeName(picked[i].text),
                          "navigate_to", <<>>)]
    IN  SubSeq(tools, 1, Min(MaxNavTools, Len(tools)))

generateCategoryTools(category, elements, siteName) ==
    CASE category = "authentication" -> generateAuthTools(elements, siteName)
      [] category = "actions"        -> generateActionTools(elements, siteName)
      [] category = "forms"          -> generateFormTools(elements, siteName)
      [] category = "navigation"     -> generateNavigationTools(elements, siteName)
      [] OTHER                       -> <<>>

\* visionResult.authFlow?.detected
generateVisionTools(visionResult, siteName) ==
    IF visionResult.authFlow.detected
    THEN << Tool(siteName \o <<"_","v","i","s","i","o","n","_","a","u","t","h">>,
                 "vision_based_auth", <<>>) >>
    ELSE <<>>

\* Object.keys / Object.entries of interfaceMap.categories, in insertion order
categoryKeys(interfaceMap) ==
    SelectSeq(CategoryNames, LAMBDA c : c \in DOMAIN interfaceMap.categories)

\* a tool list without the tools whose name an earlier tool of the list has
UniqueNames(tools) ==
    LET keep == {i \in 1..Len(tools) : \A j \in 1..(i - 1) : tools[j].name # tools[i].name}
        nth(k) == CHOOSE i \in keep : Cardinality({j \in keep : j <= i}) = k
    IN  [k \in 1..Cardinality(keep) |-> tools[nth(k)]]

\* generateFromAnalysis with the names of its tools made unique
generateFromAnalysisUniqueNames(interfaceMap, visionResult, url, now) ==
    LET siteName == extractSiteName(url)
        keys == categoryKeys(interfaceMap)
        tools == UniqueNames(
                   generateBaseTools(siteName)
                   \o Flatten([i \in 1..Len(keys) |->
                          generateCategoryTools(keys[i], interfaceMap.categories[keys[i]],
                                                siteName)])
                   \o (IF visionResult # NoResult /\ visionResult.hasElements
                       THEN generateVisionTools(visionResult, siteName) ELSE <<>>))
    IN  [tools |-> tools,
         totalTools |-> Len(tools),
         categories |-> keys,
         metadata |-> [url |-> url, siteName |-> siteName, generatedAt |-> now,
                       interfaceElements |->
                           IF "totalElements" \in DOMAIN interfaceMap
                           THEN <<interfaceMap.totalElements>> ELSE <<>>]]

\* generateFromAnalysis; now is the clock reading of new Date().  A numeric field
\* that may be undefined is <<>> (undefined) or <<n>>.
generateFromAnalysis(interfaceMap, visionResult, url, now) ==
    LET siteName == extractSiteName(url)
        keys == categoryKeys(interfaceMap)
        tools == generateBaseTools(siteName)
                 \o Flatten([i \in 1..Len(keys) |->
                        generateCategoryTools(keys[i], interfaceMap.categories[keys[i]],
                                              siteName)])
                 \o (IF visionResult # NoResult /\ visionResult.hasElements
                     THEN generateVisionTools(visionResult, siteName) ELSE <<>>)
    IN  [tools |-> tools,
         totalTools |-> Len(tools),
         categories |-> keys,
         metadata |-> [url |-> url, siteName |-> siteName, generatedAt |-> now,
                       interfaceElements |->
                           IF "totalElements" \in DOMAIN interfaceMap
                           THEN <<interfaceMap.totalElements>> ELSE <<>>]]

-----------------------------------------------------------------------------
(* VisionAnalyzer (src/core/vision-analyzer.js) *)

DetectorResult(method, confidence, hasElements, elements, detected) ==
    [method |-> method, confidence |-> confidence,
     hasElements |-> hasElements, elements |-> elements,
     authFlow |-> [detected |-> detected],
     navigation |-> [primaryActions |-> IF detected THEN <<"Create", "Generate", "Search">>
                                       ELSE <<>>,
                     secondaryActions |-> IF detected THEN <<"Settings", "Profile", "Help">>
                                         ELSE <<>>],
     yoloBackup |-> NoResult, multiModal |-> FALSE,
     accessibility |-> NoResult, error |-> ""]

\* mockVisionCraftResult, lines 61-98
MockVisionCraft ==
    DetectorResult("visioncraft", <<85>>, TRUE, <<"button", "input", "button">>, TRUE)

\* mockYOLOResult, lines 117-141: detections, no elements field
MockYOLO == DetectorResult("yolo", <<75>>, FALSE, <<>>, FALSE)

\* a primary result that found nothing
EmptyVisionCraft == DetectorResult("visioncraft", <<40>>, TRUE, <<>>, FALSE)

\* a secondary result with an element list (two elements, confidence 0.6)
YOLOTwo == DetectorResult("yolo", <<60>>, TRUE, <<"button", "textbox">>, FALSE)

\* The bodies of tryVisionCraft and tryYOLO stand for calls to detector servers:
\* a detector returns a result, or null when the call fails (lines 103-106, 146-149)
\* results that carry no confidence
BareVisionCraft == DetectorResult("visioncraft", <<>>, TRUE, <<>>, FALSE)
BareYOLO == DetectorResult("yolo", <<>>, FALSE, <<>>, FALSE)

PrimaryOutcomes == {NoResult, MockVisionCraft, EmptyVisionCraft, BareVisionCraft}
SecondaryOutcomes == {NoResult, MockYOLO, YOLOTwo, BareYOLO}

\* the completeness test passing every result that is not null
isAnalysisCompleteAnyResult(analysis) == analysis # NoResult

isAnalysisComplete(analysis) ==
    IF analysis = NoResult THEN FALSE
    ELSE analysis.hasElements /\ Len(analysis.elements) > 0

\* the merge that leaves the confidence of the primary result as it is
mergeAnalysisKeepsConfidence(visionResult, yoloResult) ==
    IF visionResult = NoResult THEN yoloResult
    ELSE IF yoloResult = NoResult THEN visionResult
    ELSE [visionResult EXCEPT !.yoloBackup = yoloResult, !.multiModal = TRUE]

mergeAnalysis(visionResult, yoloResult) ==
    IF visionResult = NoResult THEN yoloResult
    ELSE IF yoloResult = NoResult THEN visionResult
    ELSE [visionResult EXCEPT
            !.yoloBackup = yoloResult,
            !.confidence = <<Max(OrZero(visionResult.confidence),
                                 OrZero(yoloResult.confidence))>>,
            !.multiModal = TRUE]

\* the snapshot the catch of extractAccessibilityContext returns
EmptyAccessibility == [elements |-> <<>>, totalElements |-> 0]

\* the degraded result with the confidence of an empty detection
createFallbackAnalysisZero ==
    [method |-> "fallback", confidence |-> <<0>>,
     hasElements |-> TRUE, elements |-> <<>>,
     authFlow |-> [detected |-> FALSE],
     navigation |-> [primaryActions |-> <<>>, secondaryActions |-> <<>>],
     yoloBackup |-> NoResult, multiModal |-> FALSE,
     accessibility |-> EmptyAccessibility,
     error |-> "Vision analysis failed, using accessibility tree only"]

createFallbackAnalysis ==
    [method |-> "fallback", confidence |-> <<50>>,
     hasElements |-> TRUE, elements |-> <<>>,
     authFlow |-> [detected |-> FALSE],
     navigation |-> [primaryActions |-> <<>>, secondaryActions |-> <<>>],
     yoloBackup |-> NoResult, multiModal |-> FALSE,
     accessibility |-> EmptyAccessibility,
     error |-> "Vision analysis failed, using accessibility tree only"]

\* elements.slice(0, 50)
AccessibilityCap == 50

\* the methods this offers to the callback of page.evaluate, which runs in the
\* page and not in the VisionAnalyzer
PageContextMethods == {}

\* extractAccessibilityContext: the callback calls this.generateSelector,
\* this.analyzeForms and this.analyzeNavigation (lines 179, 203, 204); where
\* they do not exist the evaluation rejects and the catch answers
extractAccessibilityContext(pg) ==
    IF pg.isNull
       \/ ~({"generateSelector", "analyzeForms", "analyzeNavigation"}
               \subseteq PageContextMethods)
    THEN EmptyAccessibility
    ELSE LET shown == SelectSeq(pg.dom, LAMBDA n : n.width > 0 /\ n.height > 0)
         IN  [elements |-> SubSeq(shown, 1, Min(AccessibilityCap, Len(shown))),
              totalElements |-> Len(shown)]

\* the detectors analyze(screenshot, page) calls, in the order of the calls, lines
\* 28-35: tryYOLO is handed the screenshot path only
analyzeCalls(pg, env) ==
    IF pg.isNull \/ ~pg.url.ok \/ ~env.saveOk THEN <<>>
    ELSE IF env.primary = NoResult \/ ~isAnalysisComplete(env.primary)
    THEN << [fn |-> "tryVisionCraft", args |-> <<"screenshotPath", "page">>],
            [fn |-> "tryYOLO", args |-> <<"screenshotPath">>] >>
    ELSE << [fn |-> "tryVisionCraft", args |-> <<"screenshotPath", "page">>] >>

\* analyze(screenshot, page).  pg is the page argument: [isNull, url]; env is what
\* the calls it awaits do: saveOk (fs.writeFile of the screenshot), primary and
\* secondary (the detectors' results).
analyze(pg, env) ==
    IF pg.isNull THEN Throw(TypeErrorNull)            \* page.url(), line 19
    ELSE IF ~pg.url.ok THEN Throw(InvalidURL)         \* new URL(url), line 220
    ELSE IF ~env.saveOk THEN Return(createFallbackAnalysis)
    ELSE LET first == env.primary
             visionResult ==
                 IF Len(analyzeCalls(pg, env)) = 2
                 THEN mergeAnalysis(first, env.secondary)
                 ELSE first
         IN  IF visionResult = NoResult
             THEN Return(createFallbackAnalysis)      \* line 41 throws, line 49 answers
             ELSE Return([visionResult EXCEPT
                            !.accessibility = extractAccessibilityContext(pg)])

-----------------------------------------------------------------------------
(* AuthManager (src/core/auth-manager.js) *)

\* checkLoginStatus once page.evaluate has settled: ev = [ok, hasLoggedInIndicators,
\* hasLoginForms]
checkLoginStatus(ev) ==
    IF ev.ok
    THEN LET loggedIn == ev.hasLoggedInIndicators /\ ~ev.hasLoginForms
         IN  [loggedIn |-> loggedIn,
              confidence |-> IF loggedIn THEN <<80>> ELSE <<90>>,
              error |-> ""]
    ELSE [loggedIn |-> FALSE, confidence |-> <<>>, error |-> "evaluate failed"]

\* the selector list of lines 118-123: a simple selector and the pseudo-class
\* applied to it
loginFormSelectors ==
    << [sel |-> "form[action*=login]", pseudo |-> "none", arg |-> ""],
       [sel |-> "input[type=password]", pseudo |-> "none", arg |-> ""],
       [sel |-> "button", pseudo |-> "contains", arg |-> "Sign In"],
       [sel |-> "button", pseudo |-> "contains", arg |-> "Log In"] >>

\* document.querySelectorAll throws a SyntaxError on a list with a selector that
\* is not CSS; :contains() is no CSS pseudo-class
querySelectorAllThrows(selectors) ==
    \E i \in 1..Len(selectors) : selectors[i].pseudo \notin {"none", "hover", "not"}

\* page.evaluate of the callback of checkLoginStatus, lines 102-130, on a page with
\* or without a logout link and a password field
loginStatusEval(pg) ==
    IF pg.isNull \/ querySelectorAllThrows(loginFormSelectors)
    THEN [ok |-> FALSE, hasLoggedInIndicators |-> FALSE, hasLoginForms |-> FALSE]
    ELSE [ok |-> TRUE, hasLoggedInIndicators |-> pg.hasLogoutLink,
          hasLoginForms |-> pg.hasPasswordField]

NotAFunction == "this.detectAuthenticationForms is not a function"

\* analyzeAndHandle(page, url).  initializeProfile does not throw (lines 27-60
\* catch the read, the parse and the save); new URL(url) is outside the try.
\* AuthManager defines no detectAuthenticationForms: line 78 throws a TypeError,
\* which line 94 catches.
analyzeAndHandle(pg, url) ==
    IF ~url.ok THEN Throw(InvalidURL)                 \* line 68
    ELSE LET loginStatus == checkLoginStatus(loginStatusEval(pg))
         IN  IF loginStatus.loggedIn
             THEN Return([success |-> TRUE, action |-> "already_logged_in", error |-> ""])
             ELSE Return([success |-> FALSE, action |-> "", error |-> NotAFunction])

-----------------------------------------------------------------------------
(* ConfigUpdater (src/core/orchestrator.js, lines 257-328) *)

\* addToClaudeDesktop(siteName, packageResult) once the write has settled
addToClaudeDesktop(packageResult, writeOk) ==
    IF packageResult = NoResult THEN [success |-> FALSE, error |-> TypeErrorNull]
    ELSE IF writeOk THEN [success |-> TRUE, error |-> ""]
    ELSE [success |-> FALSE, error |-> "write failed"]

\* a key of a configuration object that the object does not have
NoEntry == [absent |-> TRUE]

\* the siteName arguments of addToClaudeDesktop
SiteNames == {"a-io", "docs"}

\* `${siteName}-automation`, line 280
ServerName(siteName) == siteName \o "-automation"

\* the keys a configuration may have under mcpServers, and beside mcpServers
ServerNames == {"filesystem"} \cup {ServerName(siteName) : siteName \in SiteNames}
SettingKeys == {"theme"}

\* an entry that is in the configuration before the call
OldEntry == [command |-> "npx", args |-> <<"old-server">>, env |-> "{}"]

\* { mcpServers: {} }, line 310
DefaultConfig ==
    [hasServers |-> TRUE, mcpServers |-> [n \in ServerNames |-> NoEntry],
     settings |-> [k \in SettingKeys |-> NoEntry]]

\* the configurations a configuration file may hold
Configs ==
    { c \in [hasServers : BOOLEAN, mcpServers : [ServerNames -> {NoEntry, OldEntry}],
             settings : [SettingKeys -> {NoEntry, [value |-> "dark"]}]] :
        ~c.hasServers => \A n \in ServerNames : c.mcpServers[n] = NoEntry }

\* the file at configPath: absent, or holding a configuration that fs.readFile
\* returns and JSON.parse accepts ("ok"), that fs.readFile rejects on
\* ("unreadable"), or that JSON.parse throws on ("unparsable")
ConfigFiles ==
    { [state |-> "absent", config |-> [DefaultConfig EXCEPT !.hasServers = FALSE]] }
    \cup { [state |-> st, config |-> c] :
             st \in {"ok", "unreadable", "unparsable"}, c \in Configs }

\* readCurrentConfig: any failure of readFile or JSON.parse gives the default
readCurrentConfig(file) ==
    IF file.state = "ok" THEN file.config ELSE DefaultConfig

\* the configuration addToClaudeDesktop hands to writeConfigViaAppleScript,
\* lines 270-283
updatedConfig(siteName, packageResult, file) ==
    LET currentConfig == readCurrentConfig(file)
        newServerConfig == [command |-> "node", args |-> <<packageResult.serverPath>>,
                            env |-> "{}"]
        mcpServers == IF currentConfig.hasServers THEN currentConfig.mcpServers
                      ELSE [n \in ServerNames |-> NoEntry]
    IN  [currentConfig EXCEPT
            !.hasServers = TRUE,
            !.mcpServers = [mcpServers EXCEPT ![ServerName(siteName)] = newServerConfig]]

\* the file at configPath once addToClaudeDesktop has returned: fs.writeFile
\* replaces its content, unless line 275 threw or the write failed
configFileAfter(siteName, packageResult, file, writeOk) ==
    IF packageResult = NoResult \/ ~writeOk THEN file
    ELSE [state |-> "ok", config |-> updatedConfig(siteName, packageResult, file)]

-----------------------------------------------------------------------------
(* Pages *)

Node(tag, type, text, href, className, shown) ==
    [tag |-> tag, type |-> type, text |-> text, placeholder |-> <<>>, href |-> href,
     id |-> <<>>, className |-> className, name |-> <<>>, ariaLabel |-> JsNull,
     width |-> IF shown THEN 80 ELSE 0, height |-> IF shown THEN 30 ELSE 0,
     onclick |-> FALSE, role |-> "null"]

\* <input type="password">
PasswordInput == Node("input", "password", <<>>, <<>>, <<>>, TRUE)
\* <button>Sign In</button>
SignInButton == Node("button", "submit", <<"S","i","g","n"," ","I","n">>, <<>>, <<>>, TRUE)
\* <a href="/login">Login</a>
LoginLink == Node("a", "unknown", <<"L","o","g","i","n">>, <<"/","l","o","g","i","n">>, <<>>, TRUE)
\* <button>Create</button>
CreateButton == Node("button", "submit", <<"C","r","e","a","t","e">>, <<>>, <<>>, TRUE)
\* <a href="/docs">Docs</a>
DocsLink == Node("a", "unknown", <<"D","o","c","s">>, <<"/","d","o","c","s">>, <<>>, TRUE)
\* <input type="text" class="q">
SearchInput == Node("input", "text", <<>>, <<>>, <<"q">>, TRUE)
\* <div tabindex="0">More</div>
TabDiv == Node("div", "unknown", <<"M","o","r","e">>, <<>>, <<>>, TRUE)
\* <button style="display:none">Create</button>
HiddenButton == Node("button", "submit", <<"C","r","e","a","t","e">>, <<>>, <<>>, FALSE)

\* <button>Generate MCP packages!</button>
LongButton == Node("button", "submit",
                   <<"G","e","n","e","r","a","t","e"," ","M","C","P"," ",
                     "p","a","c","k","a","g","e","s","!">>, <<>>, <<>>, TRUE)
\* <input type="text" class="nav">
NavInput == Node("input", "text", <<>>, <<>>, <<"n","a","v">>, TRUE)

\* <button>Screenshot</button>
ScreenshotButton == Node("button", "submit",
                         <<"S","c","r","e","e","n","s","h","o","t">>, <<>>, <<>>, TRUE)

NodeKinds == {PasswordInput, SignInButton, LoginLink, CreateButton, DocsLink,
              SearchInput, TabDiv, HiddenButton, LongButton, NavInput, ScreenshotButton}

\* the pages a direct call of mapElements is given
Doms == UNION {[1..n -> NodeKinds] : n \in 0..MaxNodes}

\* the pages a run of the pipeline visits
Pages == { <<>>, <<PasswordInput, SignInButton>> }

\* the URL of the runs: https://a.io
W_host == <<"a", ".", "i", "o">>
SiteUrl == [ok |-> TRUE, hostname |-> W_host]
BadUrl == [ok |-> FALSE, hostname |-> <<>>]
\* https://a-b.io
HyphenUrl == [ok |-> TRUE, hostname |-> <<"a", "-", "b", ".", "i", "o">>]

\* the url argument of a direct call of generateFromAnalysis
UnitUrls == {SiteUrl, BadUrl, HyphenUrl}

-----------------------------------------------------------------------------
(* NPMPackager.createPackage: npm-packager.js is not among the sources; its
   contract is createPackage(siteLabel, toolSet, runMetadata) -> {path, entry path} *)

createPackage == [path |-> "generated/a-mcp", serverPath |-> "generated/a-mcp/server.js"]

-----------------------------------------------------------------------------
(* Orchestrator (src/core/orchestrator.js, lines 14-244) *)

\* the calls of generateAutomation that may overlap on the one Orchestrator
Runs == {"r1", "r2"}

\* this.browser / this.page holding null
Null == "null"

Options == [skipAuth : BOOLEAN, autoDeploy : BOOLEAN]

\* the authentication test of Step 3 inverted
authSkippedInverted(options) == ~options.skipAuth

\* if (!options.skipAuth), line 49
authSkipped(options) == options.skipAuth

\* if (options.autoDeploy !== false), line 76
deployEnabled(options) == options.autoDeploy # FALSE

\* the message each stage logs before its operation is called
Label(stage) ==
    CASE stage = "init"    -> "Initializing Browser Session..."
      [] stage = "nav"     -> "Navigating to https://a.io..."
      [] stage = "auth"    -> "Analyzing Authentication Requirements..."
      [] stage = "vision"  -> "Running Vision Analysis..."
      [] stage = "map"     -> "Mapping Interface Elements..."
      [] stage = "synth"   -> "Generating MCP Tools..."
      [] stage = "package" -> "Creating NPM Package..."
      [] stage = "deploy"  -> "Deploying to Claude Desktop..."

CompleteLabel == "Universal MCP Generation Complete!"
FailedLabel(msg) == "Pipeline Failed: " \o msg

\* throw new Error(`Navigation failed: ${error.message}`), line 130
navigateError(msg) == "Navigation failed: " \o msg

NewPipeline ==
    [steps |-> <<>>, authResult |-> Unset, visionResult |-> Unset,
     interfaceMap |-> Unset, tools |-> Unset, packageResult |-> Unset,
     deployResult |-> Unset]

\* log(pipeline, message): the entry's timestamp and elapsed time are left out
log(pl, message) == [pl EXCEPT !.steps = Append(@, message)]

\* pipeline.tools is the object generateFromAnalysis returns
formatSuccess(pl) ==
    [success |-> TRUE,
     steps |-> pl.steps,
     tools |-> IF "length" \in DOMAIN pl.tools THEN pl.tools.length ELSE 0,
     packagePath |-> IF "path" \in DOMAIN pl.packageResult
                     THEN pl.packageResult.path ELSE "undefined",
     deployed |-> IF "success" \in DOMAIN pl.deployResult
                  THEN pl.deployResult.success ELSE FALSE]

\* the error result built with the success flag of formatSuccess
formatErrorAsSuccess(pl, msg) ==
    [success |-> TRUE,
     error |-> msg,
     steps |-> pl.steps,
     failedAt |-> IF pl.steps # <<>> THEN pl.steps[Len(pl.steps)] ELSE "Unknown"]

formatError(pl, msg) ==
    [success |-> FALSE,
     error |-> msg,
     steps |-> pl.steps,
     failedAt |-> IF pl.steps # <<>> THEN pl.steps[Len(pl.steps)] ELSE "Unknown"]

\* what a call made on the session run r awaits can do: it rejects once the
\* session is closed
Outcomes(r) ==
    IF target[r] # Null /\ session[target[r]] = "closed" THEN {"throw"} ELSE {"ok", "throw"}

\* the page argument a component is handed
PageArg(t) == [isNull |-> t = Null, url |-> SiteUrl,
               hasLogoutLink |-> FALSE, hasPasswordField |-> FALSE]

\* the stage is logged and its operation is invoked
Begin(pl, h, stage) ==
    [pl |-> log(pl, Label(stage)), h |-> [h EXCEPT !.invoked = Append(@, stage)]]

\* the finally block, lines 89-91: cleanup() up to its await
EnterCleanup(r, pl, res, h) ==
    /\ pipeline' = [pipeline EXCEPT ![r] = pl]
    /\ result' = [result EXCEPT ![r] = res]
    /\ hist' = [hist EXCEPT ![r] = h]
    /\ IF browser # Null
       THEN /\ pc' = [pc EXCEPT ![r] = "close"]
            /\ target' = [target EXCEPT ![r] = browser]
       ELSE /\ pc' = [pc EXCEPT ![r] = "done"]
            /\ target' = [target EXCEPT ![r] = Null]
    /\ UNCHANGED <<browser, page, session, opts, unit, profile>>

\* the catch block, lines 86-88, then the finally block
Fail(r, pl, h, stage, msg) ==
    LET pl2 == log(pl, FailedLabel(msg))
    IN  EnterCleanup(r, pl2, formatError(pl2, msg),
                     [h EXCEPT !.threw = stage, !.error = msg])

\* lines 82-84, then the finally block
Finish(r, pl, h) ==
    LET pl2 == log(pl, CompleteLabel)
    IN  EnterCleanup(r, pl2, formatSuccess(pl2), h)

\* the run is suspended in a call on session t
Await(r, pl, h, where, t) ==
    /\ pipeline' = [pipeline EXCEPT ![r] = pl]
    /\ hist' = [hist EXCEPT ![r] = h]
    /\ pc' = [pc EXCEPT ![r] = where]
    /\ target' = [target EXCEPT ![r] = t]
    /\ UNCHANGED <<browser, page, session, opts, result, unit, profile>>

\* Step 4, lines 55-57: this.page.screenshot() on a null page throws at once
StartVision(r, pl, h) ==
    LET b == Begin(pl, h, "vision")
    IN  IF page = Null
        THEN Fail(r, b.pl, b.h, "vision", TypeErrorNull)
        ELSE Await(r, b.pl, b.h, "screenshot", page)

Init ==
    /\ browser = Null
    /\ page = Null
    /\ session = [s \in Runs |-> "none"]
    /\ pc = [r \in Runs |-> "idle"]
    /\ opts = [r \in Runs |-> [skipAuth |-> FALSE, autoDeploy |-> TRUE]]
    /\ target = [r \in Runs |-> Null]
    /\ pipeline = [r \in Runs |-> NewPipeline]
    /\ result = [r \in Runs |-> Unset]
    /\ hist = [r \in Runs |-> [invoked |-> <<>>, threw |-> "none", error |-> ""]]
    /\ profile = [value |-> Null, loads |-> 0]
    /\ unit = [op |-> "none"]

\* generateAutomation(url, siteName, options) up to chromium.launch, lines 30-42, 98
Start(r) ==
    /\ pc[r] = "idle"
    /\ \E o \in Options :
        LET b == Begin(NewPipeline, hist[r], "init")
        IN  /\ opts' = [opts EXCEPT ![r] = o]
            /\ pipeline' = [pipeline EXCEPT ![r] = b.pl]
            /\ hist' = [hist EXCEPT ![r] = b.h]
            /\ pc' = [pc EXCEPT ![r] = "launch"]
    /\ UNCHANGED <<browser, page, session, target, result, unit, profile>>

\* chromium.launch settles, lines 98-107
LaunchReturn(r) ==
    /\ pc[r] = "launch"
    /\ \/ /\ session' = [session EXCEPT ![r] = "open"]
          /\ browser' = r
          /\ target' = [target EXCEPT ![r] = r]
          /\ pc' = [pc EXCEPT ![r] = "newPage"]
          /\ UNCHANGED <<page, opts, pipeline, result, hist, unit, profile>>
       \/ Fail(r, pipeline[r], hist[r], "init", "launch failed")

\* browser.newPage settles, lines 107-113
NewPageReturn(r) ==
    /\ pc[r] = "newPage"
    /\ \E out \in Outcomes(r) :
        IF out = "ok"
        THEN /\ page' = target[r]
             /\ pc' = [pc EXCEPT ![r] = "route"]
             /\ UNCHANGED <<browser, session, opts, target, pipeline, result, hist, unit, profile>>
        ELSE Fail(r, pipeline[r], hist[r], "init", "newPage failed")

\* page.route settles; Step 2 up to page.goto, lines 113, 44-46, 121
RouteReturn(r) ==
    /\ pc[r] = "route"
    /\ \E out \in Outcomes(r) :
        IF out = "ok"
        THEN LET b == Begin(pipeline[r], hist[r], "nav")
             IN  IF page = Null
                 THEN Fail(r, b.pl, b.h, "nav", navigateError(TypeErrorNull))
                 ELSE Await(r, b.pl, b.h, "goto", page)
        ELSE Fail(r, pipeline[r], hist[r], "init", "route failed")

\* page.goto and page.waitForTimeout settle; Step 3 or Step 4 begins, lines 121-131, 48-57
GotoReturn(r) ==
    /\ pc[r] = "goto"
    /\ \E out \in Outcomes(r) :
        IF out = "ok"
        THEN IF authSkipped(opts[r])
             THEN StartVision(r, pipeline[r], hist[r])
             ELSE LET b == Begin(pipeline[r], hist[r], "auth")
                  IN  IF profile.value # Null              \* auth-manager.js:25
                      THEN Await(r, b.pl, b.h, "auth", page)
                      ELSE Await(r, b.pl, b.h, "readProfile", page)
        ELSE Fail(r, pipeline[r], hist[r], "nav", navigateError("Timeout 30000ms exceeded"))

\* initializeProfile, auth-manager.js:27-62: fs.readFile settles; the profile is
\* parsed from the file or, when that fails, built from the environment and saved
ProfileReturn(r) ==
    /\ pc[r] = "readProfile"
    /\ profile' = [value |-> "loaded", loads |-> profile.loads + 1]
    /\ pc' = [pc EXCEPT ![r] = "auth"]
    /\ UNCHANGED <<browser, page, session, opts, target, pipeline, result, hist, unit>>

\* authManager.analyzeAndHandle settles, lines 51-52; Step 4 begins
AuthReturn(r) ==
    /\ pc[r] = "auth"
    /\ LET out == analyzeAndHandle(PageArg(target[r]), SiteUrl)
       IN  IF out.threw
           THEN Fail(r, pipeline[r], hist[r], "auth", out.error)
           ELSE StartVision(r, [pipeline[r] EXCEPT !.authResult = out.value], hist[r])

\* page.screenshot settles, lines 146-151: analyze is called on this.page
ScreenshotReturn(r) ==
    /\ pc[r] = "screenshot"
    /\ \E out \in Outcomes(r) :
        IF out = "ok"
        THEN Await(r, pipeline[r], hist[r], "analyze", page)
        ELSE Fail(r, pipeline[r], hist[r], "vision", "screenshot failed")

\* what the detectors and the file system do during the analysis of a run
RunVisionEnvs == [saveOk : BOOLEAN, primary : {NoResult, MockVisionCraft},
                  secondary : {NoResult}]

\* visionAnalyzer.analyze settles, lines 151, 57-58; Step 5 up to page.evaluate
AnalyzeReturn(r) ==
    /\ pc[r] = "analyze"
    /\ \E env \in RunVisionEnvs :
        LET out == analyze(PageArg(target[r]), env)
        IN  IF out.threw
            THEN Fail(r, pipeline[r], hist[r], "vision", out.error)
            ELSE LET b == Begin([pipeline[r] EXCEPT !.visionResult = out.value],
                                hist[r], "map")
                 IN  Await(r, b.pl, b.h, "map", page)

\* the results page.evaluate of mapElements can settle with for run r
MapEvals(r) ==
    {[ok |-> FALSE, dom |-> <<>>]} \cup
    (IF target[r] # Null /\ session[target[r]] = "open"
     THEN {[ok |-> TRUE, dom |-> d] : d \in Pages} ELSE {})

\* NPMPackager.createPackage is called
StartPackage(r, pl, h) ==
    LET b == Begin(pl, h, "package")
    IN  Await(r, b.pl, b.h, "package", Null)

\* mapElements settles, lines 62-63; Step 6, lines 65-68, 164-170; Step 7 begins
MapReturn(r) ==
    /\ pc[r] = "map"
    /\ \E ev \in MapEvals(r) :
        LET out == mapElements(ev)
            b == Begin([pipeline[r] EXCEPT !.interfaceMap = out.value], hist[r], "synth")
        IN  IF out.threw
            THEN Fail(r, pipeline[r], hist[r], "map", out.error)
            ELSE IF page = Null
            THEN Fail(r, b.pl, b.h, "synth", TypeErrorNull)  \* this.page.url(), line 168
            ELSE StartPackage(r,
                    [b.pl EXCEPT !.tools =
                        generateFromAnalysis(b.pl.interfaceMap, b.pl.visionResult,
                                             SiteUrl, 0)],
                    b.h)

\* createPackage settles, lines 72-73; Step 8 begins or the run completes
PackageReturn(r) ==
    /\ pc[r] = "package"
    /\ \/ LET pl == [pipeline[r] EXCEPT !.packageResult = createPackage]
          IN  IF deployEnabled(opts[r])
              THEN LET b == Begin(pl, hist[r], "deploy")
                   IN  Await(r, b.pl, b.h, "deploy", Null)
              ELSE Finish(r, pl, hist[r])
       \/ Fail(r, pipeline[r], hist[r], "package", "createPackage failed")

\* addToClaudeDesktop settles, lines 78-79; the run completes
DeployReturn(r) ==
    /\ pc[r] = "deploy"
    /\ \E writeOk \in BOOLEAN :
        Finish(r, [pipeline[r] EXCEPT !.deployResult =
                      addToClaudeDesktop(pipeline[r].packageResult, writeOk)],
               hist[r])

\* browser.close settles, lines 239-241; the run returns
CloseReturn(r) ==
    /\ pc[r] = "close"
    /\ session' = [session EXCEPT ![target[r]] = "closed"]
    /\ browser' = Null
    /\ page' = Null
    /\ pc' = [pc EXCEPT ![r] = "done"]
    /\ UNCHANGED <<opts, target, pipeline, result, hist, unit, profile>>

Next ==
    \E r \in Runs :
        \/ Start(r)
        \/ LaunchReturn(r)
        \/ NewPageReturn(r)
        \/ RouteReturn(r)
        \/ GotoReturn(r)
        \/ ProfileReturn(r)
        \/ AuthReturn(r)
        \/ ScreenshotReturn(r)
        \/ AnalyzeReturn(r)
        \/ MapReturn(r)
        \/ PackageReturn(r)
        \/ DeployReturn(r)
        \/ CloseReturn(r)

Spec == Init /\ [][Next]_vars

\* what run r does once a call it awaits has returned or thrown
Resume(r) ==
    \/ LaunchReturn(r)
    \/ NewPageReturn(r)
    \/ RouteReturn(r)
    \/ GotoReturn(r)
    \/ ProfileReturn(r)
    \/ AuthReturn(r)
    \/ ScreenshotReturn(r)
    \/ AnalyzeReturn(r)
    \/ MapReturn(r)
    \/ PackageReturn(r)
    \/ DeployReturn(r)
    \/ CloseReturn(r)

\* the runs when every call into the browser, the detectors, the packager and
\* the deployer eventually returns or throws (page.goto does so within its
\* timeout of 30000 ms, line 123)
SpecLive == Spec /\ \A r \in Runs : WF_vars(Resume(r))

-----------------------------------------------------------------------------
(* OpenWorldAgent, the MCP server (src/server.js) *)

\* OpenWorldAgent.generateAutomation(url, siteName, options), lines 171-199: the
\* answer is a text built from the arguments
serverGenerateAutomation(url, siteName, options) ==
    [content |-> << [type |-> "text",
                     text |-> "OpenWorldAgent - Starting automation generation",
                     target |-> url, package |-> siteName, options |-> options] >>]

\* the handler of CallToolRequestSchema, lines 132-168
callTool(name, args) ==
    IF name = "generate_automation"
    THEN serverGenerateAutomation(args.url, args.siteName, args.options)
    ELSE [content |-> << [type |-> "text",
                          text |-> "Error executing " \o name \o ": Unknown tool: " \o name] >>]

\* the requests a client sends
ToolRequests ==
    [name : {"generate_automation", "no_such_tool"},
     args : [url : {"https://a.io", "not a url"}, siteName : {"a"}, options : Options]]

-----------------------------------------------------------------------------
(* Direct calls of the components, on inputs drawn from bounded sets: a
   behaviour makes one call, on freshly constructed components *)

UnitPages ==
    {[isNull |-> n, url |-> u, hasLogoutLink |-> FALSE, hasPasswordField |-> FALSE,
      dom |-> d] : n \in BOOLEAN, u \in {SiteUrl, BadUrl}, d \in Pages} \ 
    {[isNull |-> TRUE, url |-> BadUrl, hasLogoutLink |-> FALSE, hasPasswordField |-> FALSE,
      dom |-> d] : d \in Pages}

\* the pages the authentication detector is called on: with or without a
\* single-sign-on control and a password form
AuthPages == [isNull : {FALSE}, url : {SiteUrl}, hasLogoutLink : {FALSE},
              hasPasswordField : BOOLEAN, hasGoogleSSO : BOOLEAN]

\* the pages the login-state check is made on
LoginPages == [isNull : {FALSE}, url : {SiteUrl},
               hasLogoutLink : BOOLEAN, hasPasswordField : BOOLEAN]

UnitVisionEnvs == [saveOk : BOOLEAN, primary : PrimaryOutcomes,
                   secondary : SecondaryOutcomes]

UnitMapEvals == {[ok |-> FALSE, dom |-> <<>>]} \cup {[ok |-> TRUE, dom |-> d] : d \in Doms}

\* visionAnalyzer.analyze(screenshot, page)
UnitAnalyze ==
    /\ unit.op = "none"
    /\ \E pg \in UnitPages, env \in UnitVisionEnvs :
        unit' = [op |-> "analyze", pg |-> pg, env |-> env,
                 calls |-> analyzeCalls(pg, env), out |-> analyze(pg, env)]
    /\ UNCHANGED <<browser, page, session, pc, opts, target, pipeline, result, hist, profile>>

\* authManager.analyzeAndHandle(page, url)
UnitAnalyzeAndHandle ==
    /\ unit.op = "none"
    /\ \E pg \in UnitPages \cup AuthPages, url \in {SiteUrl, BadUrl} :
        unit' = [op |-> "analyzeAndHandle", pg |-> pg, url |-> url,
                 out |-> analyzeAndHandle(pg, url)]
    /\ profile' = IF profile.value # Null THEN profile
                  ELSE [value |-> "loaded", loads |-> profile.loads + 1]
    /\ UNCHANGED <<browser, page, session, pc, opts, target, pipeline, result, hist>>

\* interfaceMapper.mapElements(page)
UnitMapElements ==
    /\ unit.op = "none"
    /\ \E ev \in UnitMapEvals :
        unit' = [op |-> "mapElements", ev |-> ev, out |-> mapElements(ev)]
    /\ UNCHANGED <<browser, page, session, pc, opts, target, pipeline, result, hist, profile>>

\* interfaceMapper.categorizeElements(elementMap), on what the extraction yields
UnitCategorizeElements ==
    /\ unit.op = "none"
    /\ \E d \in Doms :
        LET elementMap == extractElements(d)
        IN  unit' = [op |-> "categorizeElements", elementMap |-> elementMap,
                     out |-> categorizeElements(elementMap)]
    /\ UNCHANGED <<browser, page, session, pc, opts, target, pipeline, result, hist, profile>>

\* the vision results generateFromAnalysis is handed: none, the degraded one, the
\* detectors' ones
UnitVisionResults == {NoResult, createFallbackAnalysis, MockVisionCraft, MockYOLO}

\* mapElements(page), then generateFromAnalysis(interfaceMap, visionResult, url)
\* on what it answered
UnitGenerateTools ==
    /\ unit.op = "none"
    /\ \E ev \in UnitMapEvals, visionResult \in UnitVisionResults, url \in UnitUrls :
        LET interfaceMap == mapElements(ev).value
        IN  unit' = [op |-> "generateFromAnalysis", ev |-> ev,
                     interfaceMap |-> interfaceMap, visionResult |-> visionResult,
                     url |-> url,
                     out |-> generateFromAnalysis(interfaceMap, visionResult, url, 0)]
    /\ UNCHANGED <<browser, page, session, pc, opts, target, pipeline, result, hist, profile>>

\* visionAnalyzer.mergeAnalysis(visionResult, yoloResult)
UnitMergeAnalysis ==
    /\ unit.op = "none"
    /\ \E v \in PrimaryOutcomes, y \in SecondaryOutcomes :
        unit' = [op |-> "mergeAnalysis", visionResult |-> v, yoloResult |-> y,
                 out |-> mergeAnalysis(v, y)]
    /\ UNCHANGED <<browser, page, session, pc, opts, target, pipeline, result, hist, profile>>

\* authManager.checkLoginStatus(page)
UnitCheckLoginStatus ==
    /\ unit.op = "none"
    /\ \E pg \in LoginPages :
        unit' = [op |-> "checkLoginStatus", pg |-> pg,
                 out |-> checkLoginStatus(loginStatusEval(pg))]
    /\ UNCHANGED <<browser, page, session, pc, opts, target, pipeline, result, hist, profile>>

\* the readings of the clock
Clock == 0..MaxClock

\* generateFromAnalysis called twice on the same arguments, the second call not
\* before the first
UnitGenerateTwice ==
    /\ unit.op = "none"
    /\ \E ev \in {[ok |-> FALSE, dom |-> <<>>]} \cup {[ok |-> TRUE, dom |-> d] : d \in Pages},
          visionResult \in UnitVisionResults, url \in UnitUrls,
          now1 \in Clock, now2 \in Clock :
        LET interfaceMap == mapElements(ev).value
        IN  /\ now1 <= now2
            /\ unit' = [op |-> "generateTwice", interfaceMap |-> interfaceMap,
                        visionResult |-> visionResult, url |-> url,
                        now1 |-> now1, now2 |-> now2,
                        out1 |-> generateFromAnalysis(interfaceMap, visionResult, url, now1),
                        out2 |-> generateFromAnalysis(interfaceMap, visionResult, url, now2)]
    /\ UNCHANGED <<browser, page, session, pc, opts, target, pipeline, result, hist, profile>>

\* a tools/call request arrives at the server and is answered; the handler calls
\* nothing of this.orchestrator
UnitCallTool ==
    /\ unit.op = "none"
    /\ \E request \in ToolRequests :
        unit' = [op |-> "callTool", request |-> request,
                 out |-> callTool(request.name, request.args)]
    /\ UNCHANGED <<browser, page, session, pc, opts, target, pipeline, result, hist, profile>>

\* the element descriptor the extraction makes of a node
Descriptor(node) == extractElements(<<node>>).elements[1]

\* element lists in discovery order: a pattern of nodes repeated over the page
Cycles == { <<CreateButton>>, <<DocsLink>>, <<DocsLink, TabDiv>>,
            <<CreateButton, DocsLink>>, <<CreateButton, SearchInput, DocsLink>> }

ElementLists ==
    { [i \in 1..n |-> Descriptor(cyc[((i - 1) % Len(cyc)) + 1])] :
        n \in 0..MaxElements, cyc \in Cycles }

\* generateCategoryTools(category, elements, siteName) for the actions and the
\* navigation category
UnitCategoryTools ==
    /\ unit.op = "none"
    /\ \E category \in {"actions", "navigation"}, elements \in ElementLists :
        unit' = [op |-> "generateCategoryTools", category |-> category,
                 elements |-> elements, siteName |-> extractSiteName(SiteUrl),
                 out |-> generateCategoryTools(category, elements,
                                               extractSiteName(SiteUrl))]
    /\ UNCHANGED <<browser, page, session, pc, opts, target, pipeline, result, hist, profile>>

\* addToClaudeDesktop(siteName, packageResult) with the file at configPath as it
\* is found
UnitAddToClaudeDesktop ==
    /\ unit.op = "none"
    /\ \E siteName \in SiteNames, packageResult \in {createPackage, NoResult},
          file \in ConfigFiles, writeOk \in BOOLEAN :
        unit' = [op |-> "addToClaudeDesktop", siteName |-> siteName,
                 packageResult |-> packageResult, writeOk |-> writeOk,
                 before |-> file,
                 after |-> configFileAfter(siteName, packageResult, file, writeOk),
                 out |-> addToClaudeDesktop(packageResult, writeOk)]
    /\ UNCHANGED <<browser, page, session, pc, opts, target, pipeline, result, hist, profile>>

NextUnit ==
    \/ UnitAnalyze
    \/ UnitAnalyzeAndHandle
    \/ UnitMapElements
    \/ UnitCategorizeElements
    \/ UnitGenerateTools
    \/ UnitMergeAnalysis
    \/ UnitCheckLoginStatus
    \/ UnitGenerateTwice
    \/ UnitCallTool
    \/ UnitCategoryTools
    \/ UnitAddToClaudeDesktop

SpecUnit == Init /\ [][NextUnit]_vars

-----------------------------------------------------------------------------
(* Properties *)

IsPrefix(s, t) == Len(s) <= Len(t) /\ SubSeq(t, 1, Len(s)) = s

Last(s) == s[Len(s)]

Returned(r) == pc[r] = "done"

\* C1: when a run of generateAutomation has returned, the browser session it
\* acquired is closed, on every exit path.
C1_SessionReleasedOnReturn ==
    \A r \in Runs : Returned(r) => session[r] # "open"

\* C2: once the operation of a stage has thrown, the run is in its failure exit:
\* the throwing stage is the last one whose operation was invoked, and the result
\* the run returns has success = false and carries the message thrown.
C2_ThrowGoesToFailed ==
    \A r \in Runs :
        hist[r].threw # "none" =>
            /\ pc[r] \in {"close", "done"}
            /\ Last(hist[r].invoked) = hist[r].threw
            /\ result[r].success = FALSE
            /\ result[r].error = hist[r].error

\* a run whose vision stage threw, with an earlier stage and no later one invoked
C2_Witness ==
    \E r \in Runs :
        /\ Returned(r)
        /\ hist[r].threw = "vision"
        /\ hist[r].invoked = <<"init", "nav", "auth", "vision">>
        /\ result[r].error = "screenshot failed"

\* the stages of a run with the given options, in their fixed order
ExpectedStages(o) ==
    <<"init", "nav">> \o (IF o.skipAuth THEN <<>> ELSE <<"auth">>)
    \o <<"vision", "map", "synth", "package">>
    \o (IF o.autoDeploy THEN <<"deploy">> ELSE <<>>)

C4_FailedAtIsStageLabel ==
    \A r \in Runs :
        (Returned(r) /\ ~result[r].success) =>
            result[r].failedAt = Label(hist[r].threw)

\* C5: the tool count of the result of a successful run is the number of tools
\* the synthesizer produced in that run.
C5_ToolCountCarried ==
    \A r \in Runs :
        (Returned(r) /\ result[r].success) =>
            /\ result[r].tools = pipeline[r].tools.totalTools
            /\ result[r].tools >= 3

\* C6: analyze returns a VisionResult for every page, also one whose URL cannot
\* be parsed, and never throws.
C6_AnalyzeNeverThrows ==
    (unit.op = "analyze" /\ ~unit.pg.isNull) =>
        (~unit.out.threw /\ unit.out.value # NoResult)

\* C7: no run fails in its vision stage.
C7_VisionFailureNotFatal ==
    \A r \in Runs : hist[r].threw # "vision"

C9_AuthNeverThrows ==
    (unit.op = "analyzeAndHandle" /\ ~unit.pg.isNull) => ~unit.out.threw

\* C10: when the in-page extraction fails, mapElements does not throw and answers
\* a set whose five categories are each present and empty.
C10_DegradedIsEmptySet ==
    (unit.op = "mapElements" /\ ~unit.ev.ok) =>
        /\ ~unit.out.threw
        /\ unit.out.value.elements = <<>>
        /\ \A c \in Range(CategoryNames) :
              /\ c \in DOMAIN unit.out.value.categories
              /\ unit.out.value.categories[c] = <<>>

\* the number of places of s that hold e
Count(s, e) == Cardinality({i \in 1..Len(s) : s[i] = e})

\* C11: categorizeElements puts each element of its input in exactly one of the
\* five categories, as often as the input holds it, so that the sizes of the
\* categories sum to totalElements.
C11_Partition ==
    unit.op = "categorizeElements" =>
        LET els == unit.elementMap.elements
            cats == unit.out.categories
        IN  /\ DOMAIN cats = Range(CategoryNames)
            /\ \A e \in Range(els) :
                  \E c \in DOMAIN cats :
                      /\ Count(cats[c], e) = Count(els, e)
                      /\ \A d \in DOMAIN cats \ {c} : Count(cats[d], e) = 0
            /\ \A c \in DOMAIN cats : Range(cats[c]) \subseteq Range(els)
            /\ unit.out.totalElements = Len(els)
            /\ Len(Flatten([i \in 1..Len(CategoryNames) |-> cats[CategoryNames[i]]]))
                  = unit.out.totalElements

\* a link labelled Login (authentication by its text, a link by its tag) next to a
\* plain button, each in one category
C11_Witness ==
    /\ unit.op = "categorizeElements"
    /\ Len(unit.elementMap.elements) = 2
    /\ Len(unit.out.categories["authentication"]) = 1
    /\ unit.out.categories["authentication"][1].tag = "a"
    /\ Len(unit.out.categories["actions"]) = 1
    /\ unit.out.categories["navigation"] = <<>>

\* the names of the tools of a tool set
ToolNames(toolSet) == {toolSet.tools[i].name : i \in 1..Len(toolSet.tools)}

BaseToolNames(siteName) ==
    { siteName \o <<"_","i","n","i","t","i","a","l","i","z","e">>,
      siteName \o <<"_","s","c","r","e","e","n","s","h","o","t">>,
      siteName \o <<"_","g","e","t","_","s","t","a","t","u","s">> }

\* C12: whatever the element set (empty and degraded ones included) and the
\* vision result (empty, degraded or missing), the tool list generateFromAnalysis
\* returns holds <site>_initialize, <site>_screenshot and <site>_get_status.
C12_BaseTools ==
    unit.op = "generateFromAnalysis" =>
        /\ BaseToolNames(unit.out.metadata.siteName) \subseteq ToolNames(unit.out)
        /\ unit.out.totalTools >= 3

\* synthesis on the degraded element set with no vision result
C12_Witness ==
    /\ unit.op = "generateFromAnalysis"
    /\ unit.interfaceMap = degradedMap
    /\ unit.visionResult = NoResult
    /\ unit.out.totalTools = 3

\* C13: for a page with no interactive element, mapping reports totalElements = 0
\* and score = 0, and synthesis on that result yields exactly the 3 base tools.
C13_EmptyPageThreeTools ==
    (unit.op = "generateFromAnalysis" /\ unit.ev.ok /\ unit.ev.dom = <<>>
        /\ unit.visionResult \in {NoResult, createFallbackAnalysis}) =>
        /\ unit.interfaceMap.totalElements = 0
        /\ unit.interfaceMap.automationPotential.score = 0
        /\ unit.out.totalTools = 3
        /\ ToolNames(unit.out) = BaseToolNames(unit.out.metadata.siteName)

\* C14: for a page of one password input and a button labelled "Sign In", the
\* input is classified authentication and synthesis yields <site>_login with
\* required inputs email and password.
C14_SignInPageLoginTool ==
    (unit.op = "generateFromAnalysis" /\ unit.ev.ok
        /\ unit.ev.dom = <<PasswordInput, SignInButton>>) =>
        /\ Len(unit.interfaceMap.categories["authentication"]) >= 1
        /\ unit.interfaceMap.categories["authentication"][1].type = "password"
        /\ \E i \in 1..Len(unit.out.tools) :
              /\ unit.out.tools[i].name =
                     unit.out.metadata.siteName \o <<"_","l","o","g","i","n">>
              /\ unit.out.tools[i].required = <<"email", "password">>

\* the call of analyze got as far as the detectors
DetectorsRan == unit.op = "analyze" /\ ~unit.pg.isNull /\ unit.pg.url.ok /\ unit.env.saveOk

\* C15: when the primary detector returns a result with no element and the
\* secondary one two elements with confidence 0.6, analyze returns a result with
\* a non-empty element list and confidence 0.6.
C15_SecondaryElementsKept ==
    (DetectorsRan /\ unit.env.primary # NoResult /\ unit.env.primary.elements = <<>>
        /\ unit.env.secondary = YOLOTwo) =>
        /\ ~unit.out.threw
        /\ unit.out.value.elements # <<>>
        /\ unit.out.value.confidence = <<60>>

\* C16: the merge of two detector results has the larger of their confidences,
\* a missing confidence counting as 0.
C16_MergeLaw ==
    (unit.op = "mergeAnalysis" /\ unit.visionResult # NoResult
        /\ unit.yoloResult # NoResult) =>
        LET a == IF unit.visionResult.confidence = <<>> THEN 0
                 ELSE unit.visionResult.confidence[1]
            b == IF unit.yoloResult.confidence = <<>> THEN 0
                 ELSE unit.yoloResult.confidence[1]
        IN  /\ unit.out.confidence # <<>>
            /\ unit.out.confidence[1] >= a
            /\ unit.out.confidence[1] >= b
            /\ unit.out.confidence[1] \in {a, b}

\* a primary result without confidence merged with a secondary one of 0.6
C16_Witness ==
    /\ unit.op = "mergeAnalysis"
    /\ unit.visionResult = BareVisionCraft
    /\ unit.yoloResult = YOLOTwo
    /\ unit.out.confidence = <<60>>
    /\ unit.out.multiModal

\* C17: when both detectors return nothing, analyze returns the fixed degraded
\* result: method fallback, confidence 0.5, no elements, authFlow.detected false,
\* empty primary and secondary navigation summaries.
C17_BothFailFallback ==
    (DetectorsRan /\ unit.env.primary = NoResult /\ unit.env.secondary = NoResult) =>
        /\ ~unit.out.threw
        /\ unit.out.value.method = "fallback"
        /\ unit.out.value.confidence = <<50>>
        /\ unit.out.value.elements = <<>>
        /\ unit.out.value.authFlow.detected = FALSE
        /\ unit.out.value.navigation.primaryActions = <<>>
        /\ unit.out.value.navigation.secondaryActions = <<>>

\* an analysis in which the screenshot was saved and both detectors returned nothing
C17_Witness ==
    /\ DetectorsRan
    /\ unit.env.primary = NoResult
    /\ unit.env.secondary = NoResult
    /\ unit.out.value.method = "fallback"

\* C18: the result of the login-state check has loggedIn = (logged-in indicator
\* found and no login form found) and confidence 0.8 when loggedIn, 0.9 when not;
\* a page with a logout link and no password field gives loggedIn, 0.8.
C18_LoginDecisionRule ==
    unit.op = "checkLoginStatus" =>
        /\ unit.out.loggedIn = (unit.pg.hasLogoutLink /\ ~unit.pg.hasPasswordField)
        /\ unit.out.confidence = IF unit.out.loggedIn THEN <<80>> ELSE <<90>>

\* C19: the authentication profile is loaded at most once, whatever the number
\* of invocations of the detector and however they overlap.
C19_ProfileLoadedOnce == profile.loads <= 1

\* C20: when runs overlap, every call a run makes on a browser session (newPage,
\* route, goto, evaluate, screenshot, close) is made on the session that run
\* launched, and no run returns with the session it launched still open.
C20_SessionsNotShared ==
    \A r \in Runs :
        /\ target[r] \in {Null, r}
        /\ (pc[r] = "done" /\ session[r] # "none") => session[r] = "closed"

\* C21: two invocations of generateFromAnalysis on the same categorized
\* elements, vision result and url return tool sets equal in every field.
C21_Deterministic ==
    unit.op = "generateTwice" => unit.out1 = unit.out2

\* C22: every tool name generateFromAnalysis produces is a non-empty string over
\* [A-Za-z0-9_], and the part of a name that comes from an element's text is at
\* most 20 characters long.
C22_ToolNamesSanitized ==
    unit.op = "generateFromAnalysis" =>
        \A i \in 1..Len(unit.out.tools) :
            LET tool == unit.out.tools[i]
                site == Len(unit.out.metadata.siteName)
            IN  /\ tool.name # <<>>
                /\ Range(tool.name) \subseteq (AlphaNum \cup {"_"})
                /\ tool.implementation = "click_element" =>
                       Len(tool.name) - (site + 1) <= NameCap
                /\ tool.implementation = "navigate_to" =>
                       Len(tool.name) - (site + 6) <= NameCap

\* the tool of a button whose text is longer than the cap and holds a space and
\* an exclamation mark, on a host name with a hyphen
C22_Witness ==
    /\ unit.op = "generateFromAnalysis"
    /\ unit.url = HyphenUrl
    /\ unit.ev.ok /\ unit.ev.dom = <<LongButton>>
    /\ \E i \in 1..Len(unit.out.tools) :
          unit.out.tools[i].name =
              <<"a","b","_","i","o","_">> \o
              <<"g","e","n","e","r","a","t","e","_","m","c","p","_",
                "p","a","c","k","a","g","e">>

\* the number of elements over the categories of a mapping result
TotalClassified(interfaceMap) ==
    Len(Flatten([i \in 1..Len(categoryKeys(interfaceMap)) |->
                    interfaceMap.categories[categoryKeys(interfaceMap)[i]]]))

\* C23: every result of mapping, the degraded one included, carries an
\* automation-potential score equal to min(100, 10 * the number of elements over
\* the five categories), a multiple of 10 in 0..100.
C23_ScoreFormula ==
    unit.op = "mapElements" =>
        LET v == unit.out.value
        IN  /\ "automationPotential" \in DOMAIN v
            /\ v.automationPotential.score =
                   Min(ScoreCap, ScorePerElement * TotalClassified(v))
            /\ v.automationPotential.score \in {ScorePerElement * k : k \in 0..10}

\* the deployment of run r answered a failure
DeployFailed(r) ==
    /\ "success" \in DOMAIN pipeline[r].deployResult
    /\ ~pipeline[r].deployResult.success

\* C24: the result of a run whose packaging or deployment failed still carries
\* the analysis results obtained before, in particular the number of tools
\* synthesized.
C24_CoreResultsPreserved ==
    \A r \in Runs :
        (Returned(r) /\ (hist[r].threw = "package" \/ DeployFailed(r))) =>
            /\ "tools" \in DOMAIN result[r]
            /\ result[r].tools = pipeline[r].tools.totalTools

\* the run configuration that opts out of every stage the options can switch off
OptOut == [skipAuth |-> TRUE, autoDeploy |-> FALSE]

\* C25: Packaging and Deploying are optional per run configuration: a successful
\* run under the configuration that opts out of the optional stages invokes
\* neither createPackage nor addToClaudeDesktop.
C25_OptionalStagesSkipped ==
    \A r \in Runs :
        (Returned(r) /\ result[r].success /\ opts[r] = OptOut) =>
            /\ "deploy" \notin Range(hist[r].invoked)
            /\ "package" \notin Range(hist[r].invoked)

\* C26: once the server has answered a generate_automation request, a run of
\* Orchestrator.generateAutomation has been started for it.
C26_RequestRunsPipeline ==
    (unit.op = "callTool" /\ unit.request.name = "generate_automation") =>
        \E r \in Runs : pc[r] # "idle" /\ hist[r].invoked # <<>>

\* the calls of tryYOLO in the analysis
YOLOCalls == SelectSeq(unit.calls, LAMBDA c : c.fn = "tryYOLO")

\* the primary detector returned nothing, or a result without elements
PrimaryIncomplete ==
    \/ unit.env.primary = NoResult
    \/ ~unit.env.primary.hasElements
    \/ unit.env.primary.elements = <<>>

\* C27: in an analysis the secondary detector is invoked exactly when the primary
\* one returned nothing or a result whose element list is missing or empty, once
\* at most, after the primary, on the screenshot alone; when the primary result
\* is complete the result returned is the primary result, with no backup and no
\* multi-source flag.
C27_FallbackIffIncomplete ==
    DetectorsRan =>
        /\ unit.calls[1].fn = "tryVisionCraft"
        /\ Len(YOLOCalls) = (IF PrimaryIncomplete THEN 1 ELSE 0)
        /\ \A i \in 1..Len(unit.calls) :
              unit.calls[i].fn = "tryYOLO" =>
                  i > 1 /\ unit.calls[i].args = <<"screenshotPath">>
        /\ ~PrimaryIncomplete =>
              /\ unit.out.value.yoloBackup = NoResult
              /\ ~unit.out.value.multiModal
              /\ unit.out.value =
                     [unit.env.primary EXCEPT !.accessibility = unit.out.value.accessibility]

\* an analysis whose primary result has an empty element list: both detectors
\* were called
C27_Witness ==
    /\ DetectorsRan
    /\ unit.env.primary = EmptyVisionCraft
    /\ unit.env.secondary = YOLOTwo
    /\ Len(unit.calls) = 2
    /\ Len(YOLOCalls) = 1

\* C28: when the secondary detector was invoked and returned a result, the result
\* of the analysis keeps the fields of the primary result if there was one, holds
\* the secondary result as its backup field and is flagged multi-source, also when
\* the primary detector returned nothing.
C28_MergedCarriesBackup ==
    (DetectorsRan /\ YOLOCalls # <<>> /\ unit.env.secondary # NoResult) =>
        /\ ~unit.out.threw
        /\ unit.out.value.yoloBackup = unit.env.secondary
        /\ unit.out.value.multiModal
        /\ unit.env.primary # NoResult =>
              /\ unit.out.value.method = unit.env.primary.method
              /\ unit.out.value.elements = unit.env.primary.elements
              /\ unit.out.value.authFlow = unit.env.primary.authFlow
              /\ unit.out.value.navigation = unit.env.primary.navigation

\* C29: on a page that is not logged in, analyzeAndHandle takes the single-sign-on
\* path when the page has a single-sign-on control (the profile prefers it), else
\* the email/password path when the page has such a form, and else answers
\* success = false with error "Unsupported authentication method".
C29_AuthDecisionTable ==
    (unit.op = "analyzeAndHandle" /\ "hasGoogleSSO" \in DOMAIN unit.pg /\ unit.url.ok) =>
        /\ ~unit.out.threw
        /\ IF unit.pg.hasGoogleSSO
           THEN unit.out.value.action = "google_sso"
           ELSE IF unit.pg.hasPasswordField
           THEN unit.out.value.action = "email_password"
           ELSE /\ unit.out.value.success = FALSE
                /\ unit.out.value.error = "Unsupported authentication method"

\* the predicate of a category, the one of content being satisfied by every element
CategoryTest(c, e) ==
    CASE c = "authentication" -> isAuthElement(e)
      [] c = "navigation"     -> isNavigationElement(e)
      [] c = "forms"          -> isFormElement(e)
      [] c = "actions"        -> isActionElement(e)
      [] OTHER                -> TRUE

\* C30: an element is in the first category, in the order authentication,
\* navigation, forms, actions, content, whose predicate it satisfies: a link whose
\* text holds "login" is authentication, an input of class "nav" navigation, a
\* button with no authentication or navigation keyword actions.
C30_FirstMatchWins ==
    unit.op = "categorizeElements" =>
        LET cats == unit.out.categories
            els == unit.elementMap.elements
            In(c, e) == e \in Range(cats[c])
        IN  /\ \A i \in 1..Len(CategoryNames) :
                  \A e \in Range(cats[CategoryNames[i]]) :
                      /\ CategoryTest(CategoryNames[i], e)
                      /\ \A j \in 1..(i - 1) : ~CategoryTest(CategoryNames[j], e)
            /\ \A e \in Range(els) :
                  /\ (e.tag = "a" /\ includes(toLowerCase(e.text), W_login)) =>
                         In("authentication", e)
                  /\ (e.tag = "input" /\ e.type = "text" /\ e.className = W_nav) =>
                         In("navigation", e)
                  /\ (e.tag = "button" /\ ~isAuthElement(e) /\ ~isNavigationElement(e)) =>
                         In("actions", e)
                  /\ (e.tag = "div" /\ ~isActionElement(e) /\ ~isAuthElement(e)
                         /\ ~isNavigationElement(e)) => In("content", e)

\* a link labelled Login and an input of class nav, categorized
C30_Witness ==
    /\ unit.op = "categorizeElements"
    /\ Len(unit.elementMap.elements) = 2
    /\ Len(unit.out.categories["authentication"]) = 1
    /\ unit.out.categories["authentication"][1].href = <<"/","l","o","g","i","n">>
    /\ Len(unit.out.categories["navigation"]) = 1
    /\ unit.out.categories["navigation"][1].tag = "input"
    /\ unit.out.categories["forms"] = <<>>

\* C31: the action tools are one tool per clickable element with non-empty text,
\* for the first 10 such elements in discovery order; the navigation tools one
\* per element with an href and a text, for the first 5 such elements.
C31_CategoryToolsCapped ==
    unit.op = "generateCategoryTools" =>
        LET actions == unit.category = "actions"
            eligible(e) == IF actions THEN e.isClickable /\ e.text # <<>>
                           ELSE e.href # <<>> /\ e.text # <<>>
            idx == {i \in 1..Len(unit.elements) : eligible(unit.elements[i])}
            \* the k-th eligible element
            nth(k) == unit.elements[CHOOSE i \in idx :
                          Cardinality({j \in idx : j <= i}) = k]
            cap == IF actions THEN 10 ELSE 5
            count == IF Cardinality(idx) < cap THEN Cardinality(idx) ELSE cap
            stem(e) == IF actions
                       THEN <<"_">> \o sanitizeName(toLowerCase(e.text))
                       ELSE <<"_","g","o","t","o","_">> \o sanitizeName(e.text)
        IN  /\ Len(unit.out) = count
            /\ \A k \in 1..Len(unit.out) :
                  /\ unit.out[k].name = unit.siteName \o stem(nth(k))
                  /\ unit.out[k].implementation =
                         (IF actions THEN "click_element" ELSE "navigate_to")

\* eleven buttons and links, alternating: ten action tools, in the order of the page
C31_Witness ==
    /\ unit.op = "generateCategoryTools"
    /\ unit.category = "actions"
    /\ Len(SelectSeq(unit.elements, LAMBDA e : e.isClickable /\ e.text # <<>>)) = 11
    /\ Len(unit.out) = 10
    /\ unit.out[1].name # unit.out[2].name

\* the nodes of the page of the analysis that the extraction would report
ShownNodes == SelectSeq(unit.pg.dom, LAMBDA n : n.width > 0 /\ n.height > 0)

\* C32: the VisionResult analyze returns carries, whatever the detectors did, an
\* accessibility snapshot of the interactive elements of the page, of at most 50
\* elements, and the analysis does not fail.
C32_AccessibilitySnapshot ==
    (unit.op = "analyze" /\ ~unit.pg.isNull /\ unit.pg.url.ok) =>
        /\ ~unit.out.threw
        /\ unit.out.value.accessibility # NoResult
        /\ Len(unit.out.value.accessibility.elements) <= 50
        /\ Len(unit.out.value.accessibility.elements) =
               (IF Len(ShownNodes) < 50 THEN Len(ShownNodes) ELSE 50)

\* C33: every run that was started eventually returns, with the browser session
\* it launched released.
C33_RunReturnsReleased ==
    \A r \in Runs : (pc[r] # "idle") ~> (pc[r] = "done" /\ session[r] # "open")

\* every run that was started eventually returns a result
RunReturns ==
    \A r \in Runs : (pc[r] # "idle") ~> (pc[r] = "done" /\ result[r] # Unset)

\* the names generateActionTools derives from the actions of a mapping result
ActionNames(interfaceMap, siteName) ==
    IF "actions" \notin DOMAIN interfaceMap.categories THEN <<>>
    ELSE LET picked == SelectSeq(interfaceMap.categories["actions"],
                                 LAMBDA e : e.isClickable /\ e.text # <<>>)
             n == IF Len(picked) < MaxActionTools THEN Len(picked) ELSE MaxActionTools
         IN  [k \in 1..n |->
                 siteName \o <<"_">> \o
                 [i \in 1..(IF Len(picked[k].text) < NameCap THEN Len(picked[k].text)
                             ELSE NameCap) |->
                     IF toLowerCase(picked[k].text)[i] \in AlphaNum
                     THEN toLowerCase(picked[k].text)[i] ELSE "_"]]

\* C34: generateFromAnalysis neither removes nor renames a tool whose name is
\* taken: a name that n action elements sanitize to is the name of at least n
\* tools of the result, and of one more when it is the name of a base tool, so
\* that the names of a ToolSet need not be unique.
C34_NamesNotDeduplicated ==
    unit.op = "generateFromAnalysis" =>
        LET siteName == unit.out.metadata.siteName
            derived == ActionNames(unit.interfaceMap, siteName)
            names == [i \in 1..Len(unit.out.tools) |-> unit.out.tools[i].name]
        IN  \A name \in Range(derived) :
                Count(names, name) >=
                    Count(derived, name)
                    + (IF name \in BaseToolNames(siteName) THEN 1 ELSE 0)

\* the tool set of a page with a button labelled Screenshot: two tools are named
\* <site>_screenshot
C34_Witness ==
    /\ unit.op = "generateFromAnalysis"
    /\ unit.ev.ok /\ unit.ev.dom = <<ScreenshotButton>>
    /\ \E i, j \in 1..Len(unit.out.tools) :
          /\ i < j
          /\ unit.out.tools[i].name = unit.out.tools[j].name
          /\ unit.out.tools[i].implementation = "take_screenshot"
          /\ unit.out.tools[j].implementation = "click_element"

\* C35: addToClaudeDesktop changes only the entry "<siteName>-automation" under
\* mcpServers: every other server entry and every other setting that the
\* configuration file holds before the call is in the file unchanged after it,
\* also when the file cannot be read or parsed; and the call returns a result,
\* {success: false, error} when the write fails.
C35_OnlyOwnEntryChanged ==
    unit.op = "addToClaudeDesktop" =>
        /\ \A n \in ServerNames \ {ServerName(unit.siteName)} :
              unit.after.config.mcpServers[n] = unit.before.config.mcpServers[n]
        /\ unit.after.config.settings = unit.before.config.settings
        /\ (unit.packageResult # NoResult /\ ~unit.writeOk) =>
              (~unit.out.success /\ unit.out.error # "")

\* the frame of addToClaudeDesktop for a file that is read and parsed
FrameWhenRead ==
    (unit.op = "addToClaudeDesktop" /\ unit.before.state \in {"ok", "absent"}) =>
        /\ \A n \in ServerNames \ {ServerName(unit.siteName)} :
              unit.after.config.mcpServers[n] = unit.before.config.mcpServers[n]
        /\ unit.after.config.settings = unit.before.config.settings

=============================================================================
